---- MODULE Spec2Model ----
(***************************************************************************)
(* ScreenCaptureEncoder (src/screen_capture.cpp): a controlling thread     *)
(* that calls Initialize / Start / Stop, the capture thread (CaptureLoop,  *)
(* EncodeVideoFrame) that pushes EncodedFrames to frame_queue_, and the    *)
(* pipe thread (PipeWriteLoop, SendFrameToPipe) that pops them and writes  *)
(* them to the named pipe.                                                 *)
(*                                                                         *)
(* Environment modelled: one controlling thread; Initialize is called at   *)
(* most once per object and never while the loops run; the clock           *)
(* (std::chrono::high_resolution_clock) never runs backwards.              *)
(***************************************************************************)
EXTENDS Integers, Sequences, FiniteSets, TLC

(***************************************************************************)
(* Bounds of the model.                                                    *)
(***************************************************************************)
\* EncodedFrames pushed to frame_queue_ in one run of the model.
MaxPushed == 2

\* The clock reads 0, ClockStep, ..., MaxClock * ClockStep microseconds.
MaxClock == 1

ClockStep == 300

ClockValues == { k * ClockStep : k \in 0..MaxClock }

\* The two counters of calls begun with running_ clear stop counting here.
MaxCounted == 2

(***************************************************************************)
(* Bytes and byte sequences.                                               *)
(***************************************************************************)
StartCode == <<0, 0, 0, 1>>

\* n as k bytes, most significant first.
RECURSIVE BigEndian(_, _)
BigEndian(n, k) ==
    IF k = 0 THEN <<>> ELSE Append(BigEndian(n \div 256, k - 1), n % 256)

\* n as k bytes, least significant first: the memory image WriteFile sends
\* of a uint32_t / uint64_t on the little-endian targets of this program.
RECURSIVE LittleEndian(_, _)
LittleEndian(n, k) ==
    IF k = 0 THEN <<>> ELSE <<n % 256>> \o LittleEndian(n \div 256, k - 1)

\* data[offset] of the C++ code (0-based).
At(data, offset) == data[offset + 1]

\* data + from .. data + to (exclusive), 0-based.
Slice(data, from, to) == SubSeq(data, from + 1, to)

(***************************************************************************)
(* ConvertLengthPrefixedToAnnexB: the contents of `out` when it returns    *)
(* (the return value is !out.empty()).                                     *)
(***************************************************************************)
\* uint32_t nal_len, as its upper and its lower 16 bits.
NalLenHigh(data, offset) == At(data, offset) * 256 + At(data, offset + 1)
NalLenLow(data, offset) == At(data, offset + 2) * 256 + At(data, offset + 3)

\* if (offset + nal_len > len), offset being the place behind the length
\* field: the sum is a size_t of `bits` bits.  Inputs are shorter than 65536
\* bytes, so a sum with a non-zero upper part is beyond len, and the only
\* carry out of the sum is the one a 32-bit size_t drops.
SizeSumHigh(data, offset, bits) ==
    LET carry == (offset + 4 + NalLenLow(data, offset)) \div 65536
        high  == NalLenHigh(data, offset) + carry
    IN  IF bits = 32 THEN high % 65536 ELSE high
SizeSumLow(data, offset) == (offset + 4 + NalLenLow(data, offset)) % 65536
PastEnd(data, offset, bits) ==
    SizeSumHigh(data, offset, bits) > 0 \/ SizeSumLow(data, offset) > Len(data)

\* The loop with a size_t of `bits` bits: the contents of `out`, and whether
\* every step was defined.  When the sum has wrapped and passed the test,
\* data + offset + nal_len lies before data + offset and out.insert is given
\* a range that is not one.
RECURSIVE LengthPrefixedRun(_, _, _, _)
LengthPrefixedRun(data, offset, out, bits) ==
    IF offset + 4 <= Len(data)
    THEN IF PastEnd(data, offset, bits)
         THEN [out |-> out, defined |-> TRUE]
         ELSE IF PastEnd(data, offset, 64)
         THEN [out |-> out, defined |-> FALSE]
         ELSE LET body    == offset + 4
                  nal_len == NalLenLow(data, offset)
              IN  LengthPrefixedRun(data, body + nal_len,
                      out \o StartCode \o Slice(data, body, body + nal_len), bits)
    ELSE [out |-> out, defined |-> TRUE]

\* The loop where size_t has 64 bits.
LengthPrefixedLoop(data, offset, out) == LengthPrefixedRun(data, offset, out, 64).out

ConvertLengthPrefixedToAnnexB(data) == LengthPrefixedLoop(data, 0, <<>>)

(***************************************************************************)
(* ConvertAvccToAnnexB: the contents of `out` when it returns.  The caller *)
(* (InitializeVideoEncoder) ignores the return value, so what counts is    *)
(* what has been appended to `out`, also on the `return false` paths.      *)
(***************************************************************************)
\* One loop of (2-byte big-endian length, bytes) records: <<offset, out, ok>>.
RECURSIVE AvccRecords(_, _, _, _)
AvccRecords(data, n, offset, out) ==
    IF n = 0 THEN <<offset, out, TRUE>>
    ELSE IF offset + 2 > Len(data) THEN <<offset, out, FALSE>>
    ELSE LET rec_len == At(data, offset) * 256 + At(data, offset + 1)
             body    == offset + 2
         IN  IF body + rec_len > Len(data) THEN <<body, out, FALSE>>
             ELSE AvccRecords(data, n - 1, body + rec_len,
                              out \o StartCode \o Slice(data, body, body + rec_len))

\* The same without the & 0x1F on the SPS count.
ConvertAvccUnmasked(data) ==
    IF Len(data) < 7 THEN <<>>
    ELSE LET num_sps == At(data, 5)
             sps     == AvccRecords(data, num_sps, 6, <<>>)
         IN  IF ~sps[3] THEN sps[2]
             ELSE IF sps[1] + 1 > Len(data) THEN sps[2]
             ELSE AvccRecords(data, At(data, sps[1]), sps[1] + 1, sps[2])[2]

ConvertAvccToAnnexB(data) ==
    IF Len(data) < 7 THEN <<>>
    ELSE LET num_sps == At(data, 5) % 32
             sps     == AvccRecords(data, num_sps, 6, <<>>)
         IN  IF ~sps[3] THEN sps[2]
             ELSE IF sps[1] + 1 > Len(data) THEN sps[2]
             ELSE AvccRecords(data, At(data, sps[1]), sps[1] + 1, sps[2])[2]

(***************************************************************************)
(* ContainsKeyframe.                                                       *)
(***************************************************************************)
KeyframeAt(data, i) ==
    /\ At(data, i) = 0
    /\ At(data, i + 1) = 0
    /\ \/ At(data, i + 2) = 0 /\ At(data, i + 3) = 1
       \/ At(data, i + 2) = 1
    /\ LET nal_index == IF At(data, i + 2) = 1 THEN i + 3 ELSE i + 4
       IN  nal_index < Len(data) /\ At(data, nal_index) % 32 = 5

ContainsKeyframe(data) ==
    \E i \in 0..(Len(data) - 1) : i + 4 < Len(data) /\ KeyframeAt(data, i)

(***************************************************************************)
(* EncodeVideoFrame, lines 802-809: the payload enqueued for one encoder   *)
(* output of out_len > 0 bytes.                                            *)
(***************************************************************************)
\* An EncodeVideoFrame that queues the sample as the encoder delivered it.
NormalizeNone(raw) == raw

\* A test that knows the 3-byte start code only.
HasStartCode3Only(raw) ==
    /\ Len(raw) >= 4
    /\ At(raw, 0) = 0
    /\ At(raw, 1) = 0
    /\ At(raw, 2) = 1

HasStartCode(raw) ==
    /\ Len(raw) >= 4
    /\ At(raw, 0) = 0
    /\ At(raw, 1) = 0
    /\ (At(raw, 2) = 1 \/ (At(raw, 2) = 0 /\ At(raw, 3) = 1))

Normalize(raw) ==
    IF HasStartCode(raw) THEN raw
    ELSE IF ConvertLengthPrefixedToAnnexB(raw) = <<>> THEN raw
    ELSE ConvertLengthPrefixedToAnnexB(raw)

(***************************************************************************)
(* Inputs the collaborators hand to the program.                           *)
(***************************************************************************)
\* Encoder outputs (IMFMediaBuffer contents): an Annex-B IDR access unit, a
\* length-prefixed non-IDR unit, and a buffer of length 0.
Samples == { <<0, 0, 0, 1, 101, 7>>, <<0, 0, 0, 2, 65, 9>>, <<>> }

\* MF_MT_MPEG_SEQUENCE_HEADER blobs: a well-formed one (one SPS, one PPS),
\* and <<>> for "no blob" (GetBlobSize fails or reports 0).
Blobs == { <<1, 66, 0, 30, 255, 225, 0, 1, 103, 1, 0, 1, 104>>, <<>> }

(***************************************************************************)
(* State.                                                                  *)
(***************************************************************************)
VARIABLES
    \* the controlling thread
    ctl_pc,                 \* where it is inside Start() / Stop()
    last_ret,               \* the last API call that returned, with its result
    init_called,            \* Initialize has been called
    destructing,            \* ~ScreenCaptureEncoder() has been entered
    \* ScreenCaptureEncoder members
    running_,               \* std::atomic<bool>
    start_time_,
    source,                 \* desktop_duplication_ and the encoder objects
    pipe_handle_,
    h264_sequence_header_,
    sent_sequence_header_,
    frame_queue_,
    queue_mutex_,           \* "free", or the thread that holds it
    \* the capture thread (CaptureLoop, EncodeVideoFrame)
    cap_pc,
    timestamp,
    annexb,
    frame_held,             \* frames acquired from desktop_duplication_, not released
    acquired_after_stop,    \* CaptureFrame calls this thread began with running_ clear
    \* the pipe thread (PipeWriteLoop, SendFrameToPipe)
    pipe_pc,
    frame,
    handed_after_stop,      \* SendFrameToPipe calls this thread began with running_ clear
    \* the world
    now,                    \* the clock, microseconds
    crashed,                \* the process has been terminated
    \* history
    pushed,                 \* EncodedFrames pushed to frame_queue_, in push order
    sent,                   \* EncodedFrames handed to SendFrameToPipe, in call order
    pipe_log,               \* WriteFile / FlushFileBuffers calls on pipe_handle_
    \* one function called on its own (see "Single calls" below)
    input,                  \* what a collaborator hands over: the bytes of one
                            \* call, or the samples an encoder has yet to deliver
    result                  \* the function called on them, and what it returned

ctlVars  == <<ctl_pc, last_ret, init_called, destructing>>
objVars  == <<running_, start_time_, source, pipe_handle_,
              h264_sequence_header_, sent_sequence_header_>>
queueVars == <<frame_queue_, queue_mutex_>>
capVars  == <<cap_pc, timestamp, annexb, frame_held, acquired_after_stop>>
pipeVars == <<pipe_pc, frame, handed_after_stop>>
histVars == <<pushed, sent, pipe_log>>
callVars == <<input, result>>

vars == <<ctl_pc, last_ret, init_called, destructing, running_, start_time_, source,
          pipe_handle_, h264_sequence_header_, sent_sequence_header_,
          frame_queue_, queue_mutex_, cap_pc, timestamp, annexb, frame_held,
          acquired_after_stop, pipe_pc, frame, handed_after_stop,
          now, crashed, pushed, sent, pipe_log,
          input, result>>

\* One more call counted.
CountUp(n) == IF n < MaxCounted THEN n + 1 ELSE n

\* EncodedFrame() of screen_capture.h.
EncodedFrame ==
    [data |-> <<>>, timestamp |-> 0, is_keyframe |-> FALSE, is_audio |-> FALSE]

\* A worker thread object is joinable from its launch to its join.
Joinable(pc) == pc # "off"

\* The loop function of a worker thread has been entered and has not returned.
Alive(pc) == pc \notin {"off", "done"}

\* A reading of the clock: any value not before the last one.
ClockReadings == { t \in ClockValues : t >= now }

\* No function has been called on its own.
NoCall == [fn |-> "none", out |-> FALSE]

\* The object as its constructor leaves it, before any thread is started.
Constructed ==
    /\ ctl_pc = "idle"
    /\ last_ret = "none"
    /\ init_called = FALSE
    /\ destructing = FALSE
    /\ running_ = FALSE
    /\ start_time_ = 0
    /\ source = "null"
    /\ pipe_handle_ = "invalid"
    /\ h264_sequence_header_ = <<>>
    /\ sent_sequence_header_ = FALSE
    /\ frame_queue_ = <<>>
    /\ queue_mutex_ = "free"
    /\ cap_pc = "off"
    /\ timestamp = 0
    /\ annexb = <<>>
    /\ frame_held = 0
    /\ acquired_after_stop = 0
    /\ pipe_pc = "off"
    /\ frame = EncodedFrame
    /\ handed_after_stop = 0
    /\ now = 0
    /\ crashed = FALSE
    /\ pushed = <<>>
    /\ sent = <<>>
    /\ pipe_log = <<>>

Init ==
    /\ Constructed
    /\ input = <<>>
    /\ result = NoCall

(***************************************************************************)
(* Initialize.  It fails at one of its stages or succeeds; what the failed *)
(* stages would have created stays unset.                                  *)
(***************************************************************************)
InitStages == {"d3d11", "encoder", "pipe", "ok"}

\* An Initialize that marks the session running once the encoder is set up.
InitializeAutoStart(stage, blob) ==
    /\ ctl_pc = "idle"
    /\ ~init_called
    /\ ~running_
    /\ init_called' = TRUE
    /\ running_' = (stage \in {"pipe", "ok"})
    /\ source' = IF stage = "d3d11" THEN source ELSE "valid"
    /\ h264_sequence_header_' =
           IF stage \in {"pipe", "ok"} /\ Len(blob) > 0
           THEN ConvertAvccToAnnexB(blob)
           ELSE h264_sequence_header_
    /\ sent_sequence_header_' =
           IF stage \in {"pipe", "ok"} THEN FALSE ELSE sent_sequence_header_
    /\ pipe_handle_' = IF stage = "ok" THEN "open" ELSE pipe_handle_
    /\ last_ret' = IF stage = "ok" THEN "Initialize:true" ELSE "Initialize:false"
    /\ UNCHANGED <<ctl_pc, start_time_, now, crashed>>
    /\ UNCHANGED <<queueVars, capVars, pipeVars, histVars>>
    /\ UNCHANGED destructing

Initialize(stage, blob) ==
    /\ ctl_pc = "idle"
    /\ ~init_called
    /\ ~running_
    /\ init_called' = TRUE
    /\ source' = IF stage = "d3d11" THEN source ELSE "valid"
    /\ h264_sequence_header_' =
           IF stage \in {"pipe", "ok"} /\ Len(blob) > 0
           THEN ConvertAvccToAnnexB(blob)
           ELSE h264_sequence_header_
    /\ sent_sequence_header_' =
           IF stage \in {"pipe", "ok"} THEN FALSE ELSE sent_sequence_header_
    /\ pipe_handle_' = IF stage = "ok" THEN "open" ELSE pipe_handle_
    /\ last_ret' = IF stage = "ok" THEN "Initialize:true" ELSE "Initialize:false"
    /\ UNCHANGED <<ctl_pc, running_, start_time_, now, crashed>>
    /\ UNCHANGED <<queueVars, capVars, pipeVars, histVars>>
    /\ UNCHANGED destructing

(***************************************************************************)
(* Start.                                                                  *)
(***************************************************************************)
\* A Start() without its guard.
NeverRunning == FALSE

\* if (running_)
AlreadyRunning == running_

StartReject ==
    /\ ctl_pc = "idle"
    /\ AlreadyRunning
    /\ last_ret' = "Start:false"
    /\ UNCHANGED <<ctl_pc, init_called, now, crashed>>
    /\ UNCHANGED <<objVars, queueVars, capVars, pipeVars, histVars>>
    /\ UNCHANGED destructing

\* A Start() that refuses to run unless Initialize has opened the pipe.
StartBeginChecksInitialized ==
    /\ ctl_pc = "idle"
    /\ ~AlreadyRunning
    /\ init_called /\ pipe_handle_ = "open"
    /\ running_' = TRUE
    /\ \E t \in ClockReadings : now' = t /\ start_time_' = t
    /\ ctl_pc' = "start_capture_thread"
    /\ UNCHANGED <<last_ret, init_called, crashed>>
    /\ UNCHANGED <<source, pipe_handle_, h264_sequence_header_, sent_sequence_header_>>
    /\ UNCHANGED <<queueVars, capVars, pipeVars, histVars>>
    /\ UNCHANGED destructing

StartBegin ==
    /\ ctl_pc = "idle"
    /\ ~AlreadyRunning
    /\ running_' = TRUE
    /\ \E t \in ClockReadings : now' = t /\ start_time_' = t
    /\ ctl_pc' = "start_capture_thread"
    /\ UNCHANGED <<last_ret, init_called, crashed>>
    /\ UNCHANGED <<source, pipe_handle_, h264_sequence_header_, sent_sequence_header_>>
    /\ UNCHANGED <<queueVars, capVars, pipeVars, histVars>>
    /\ UNCHANGED destructing

\* capture_thread_ = std::thread(...): assigning to a joinable std::thread
\* calls std::terminate.
StartCaptureThread ==
    /\ ctl_pc = "start_capture_thread"
    /\ IF Joinable(cap_pc)
       THEN crashed' = TRUE /\ UNCHANGED <<ctl_pc, cap_pc>>
       ELSE cap_pc' = "check" /\ ctl_pc' = "start_pipe_thread" /\ UNCHANGED crashed
    /\ UNCHANGED <<last_ret, init_called, now>>
    /\ UNCHANGED <<timestamp, annexb, frame_held>>
    /\ UNCHANGED <<objVars, queueVars, pipeVars, histVars>>
    /\ UNCHANGED acquired_after_stop
    /\ UNCHANGED destructing

StartPipeThread ==
    /\ ctl_pc = "start_pipe_thread"
    /\ IF Joinable(pipe_pc)
       THEN crashed' = TRUE /\ UNCHANGED <<ctl_pc, pipe_pc, last_ret>>
       ELSE /\ pipe_pc' = "check"
            /\ ctl_pc' = "idle"
            /\ last_ret' = "Start:true"
            /\ UNCHANGED crashed
    /\ UNCHANGED <<init_called, now, frame>>
    /\ UNCHANGED <<objVars, queueVars, capVars, histVars>>
    /\ UNCHANGED handed_after_stop
    /\ UNCHANGED destructing

(***************************************************************************)
(* Stop.                                                                   *)
(***************************************************************************)
\* A Stop() without its guard.
NeverIdle == FALSE

\* if (!running_)
NotRunning == ~running_

StopNoop ==
    /\ ctl_pc = "idle"
    /\ NotRunning
    /\ last_ret' = "Stop:noop"
    /\ UNCHANGED <<ctl_pc, init_called, now, crashed>>
    /\ UNCHANGED <<objVars, queueVars, capVars, pipeVars, histVars>>
    /\ UNCHANGED destructing

\* A Stop() that tears down before it joins its threads.
StopBeginTeardownFirst ==
    /\ ctl_pc = "idle"
    /\ ~NotRunning
    /\ running_' = FALSE
    /\ ctl_pc' = "release_source"
    /\ UNCHANGED <<last_ret, init_called, now, crashed>>
    /\ UNCHANGED <<start_time_, source, pipe_handle_,
                   h264_sequence_header_, sent_sequence_header_>>
    /\ UNCHANGED <<queueVars, capVars, pipeVars, histVars>>
    /\ UNCHANGED destructing

StopBegin ==
    /\ ctl_pc = "idle"
    /\ ~NotRunning
    /\ running_' = FALSE
    /\ ctl_pc' = "join_capture"
    /\ UNCHANGED <<last_ret, init_called, now, crashed>>
    /\ UNCHANGED <<start_time_, source, pipe_handle_,
                   h264_sequence_header_, sent_sequence_header_>>
    /\ UNCHANGED <<queueVars, capVars, pipeVars, histVars>>
    /\ UNCHANGED destructing

\* if (capture_thread_.joinable()) capture_thread_.join();
JoinReturns(pc) == pc = "done"

StopJoinCapture ==
    /\ ctl_pc = "join_capture"
    /\ Joinable(cap_pc) => JoinReturns(cap_pc)
    /\ cap_pc' = "off"
    /\ ctl_pc' = "join_pipe"
    /\ UNCHANGED <<last_ret, init_called, now, crashed>>
    /\ UNCHANGED <<timestamp, annexb, frame_held>>
    /\ UNCHANGED <<objVars, queueVars, pipeVars, histVars>>
    /\ UNCHANGED acquired_after_stop
    /\ UNCHANGED destructing

StopJoinPipe ==
    /\ ctl_pc = "join_pipe"
    /\ Joinable(pipe_pc) => JoinReturns(pipe_pc)
    /\ pipe_pc' = "off"
    /\ ctl_pc' = "release_source"
    /\ UNCHANGED <<last_ret, init_called, now, crashed, frame>>
    /\ UNCHANGED <<objVars, queueVars, capVars, histVars>>
    /\ UNCHANGED handed_after_stop
    /\ UNCHANGED destructing

\* Lines 482-515: the encoder objects and desktop_duplication_ are released
\* and set to nullptr ("released" is nullptr too; the name only records that
\* the object has existed).
StopReleaseSource ==
    /\ ctl_pc = "release_source"
    /\ source' = IF source = "valid" THEN "released" ELSE source
    /\ frame_held' = IF source = "valid" THEN 0 ELSE frame_held
    /\ ctl_pc' = "close_pipe"
    /\ UNCHANGED <<last_ret, init_called, now, crashed>>
    /\ UNCHANGED <<running_, start_time_, pipe_handle_,
                   h264_sequence_header_, sent_sequence_header_>>
    /\ UNCHANGED <<cap_pc, timestamp, annexb>>
    /\ UNCHANGED <<queueVars, pipeVars, histVars>>
    /\ UNCHANGED acquired_after_stop
    /\ UNCHANGED destructing

\* A Stop() that empties frame_queue_ before it returns.
StopClosePipeClearsQueue ==
    /\ ctl_pc = "close_pipe"
    /\ pipe_handle_' = IF pipe_handle_ = "open" THEN "closed" ELSE pipe_handle_
    /\ ctl_pc' = IF destructing THEN "destroy_members" ELSE "idle"
    /\ last_ret' = IF destructing THEN last_ret ELSE "Stop:done"
    /\ frame_queue_' = <<>>
    /\ UNCHANGED <<init_called, now, crashed, queue_mutex_>>
    /\ UNCHANGED <<running_, start_time_, source,
                   h264_sequence_header_, sent_sequence_header_>>
    /\ UNCHANGED <<capVars, pipeVars, histVars>>
    /\ UNCHANGED destructing

\* Lines 517-525 ("closed" is INVALID_HANDLE_VALUE too).  Stop() returns to
\* its caller: the user of the object, or the destructor.
StopClosePipe ==
    /\ ctl_pc = "close_pipe"
    /\ pipe_handle_' = IF pipe_handle_ = "open" THEN "closed" ELSE pipe_handle_
    /\ ctl_pc' = IF destructing THEN "destroy_members" ELSE "idle"
    /\ last_ret' = IF destructing THEN last_ret ELSE "Stop:done"
    /\ UNCHANGED <<init_called, now, crashed>>
    /\ UNCHANGED <<running_, start_time_, source,
                   h264_sequence_header_, sent_sequence_header_>>
    /\ UNCHANGED <<queueVars, capVars, pipeVars, histVars>>
    /\ UNCHANGED destructing

(***************************************************************************)
(* ~ScreenCaptureEncoder.                                                  *)
(***************************************************************************)
\* A destructor with an empty body.
DestructorWithoutStop ==
    /\ ctl_pc = "idle"
    /\ ~destructing
    /\ destructing' = TRUE
    /\ ctl_pc' = "destroy_members"
    /\ UNCHANGED <<last_ret, init_called, now, crashed>>
    /\ UNCHANGED <<objVars, queueVars, capVars, pipeVars, histVars>>

\* A destructor that tears the collaborators down also when running_ is
\* clear.
DestructorAlwaysTearsDown ==
    /\ ctl_pc = "idle"
    /\ ~destructing
    /\ destructing' = TRUE
    /\ IF NotRunning
       THEN ctl_pc' = "release_source" /\ UNCHANGED running_
       ELSE ctl_pc' = "join_capture" /\ running_' = FALSE
    /\ UNCHANGED <<last_ret, init_called, now, crashed>>
    /\ UNCHANGED <<start_time_, source, pipe_handle_,
                   h264_sequence_header_, sent_sequence_header_>>
    /\ UNCHANGED <<queueVars, capVars, pipeVars, histVars>>

\* The destructor is entered and calls Stop(): nothing to do if running_ is
\* clear, and otherwise the steps of Stop() follow.
Destructor ==
    /\ ctl_pc = "idle"
    /\ ~destructing
    /\ destructing' = TRUE
    /\ IF NotRunning
       THEN ctl_pc' = "destroy_members" /\ UNCHANGED running_
       ELSE ctl_pc' = "join_capture" /\ running_' = FALSE
    /\ UNCHANGED <<last_ret, init_called, now, crashed>>
    /\ UNCHANGED <<start_time_, source, pipe_handle_,
                   h264_sequence_header_, sent_sequence_header_>>
    /\ UNCHANGED <<queueVars, capVars, pipeVars, histVars>>

\* After the body the members are destroyed, capture_thread_ and
\* pipe_thread_ among them: ~thread() of a joinable std::thread calls
\* std::terminate.
DestroyMembers ==
    /\ ctl_pc = "destroy_members"
    /\ IF Joinable(cap_pc) \/ Joinable(pipe_pc)
       THEN crashed' = TRUE /\ UNCHANGED ctl_pc
       ELSE ctl_pc' = "destroyed" /\ UNCHANGED crashed
    /\ UNCHANGED <<last_ret, init_called, destructing, now>>
    /\ UNCHANGED <<objVars, queueVars, capVars, pipeVars, histVars>>

(***************************************************************************)
(* CaptureLoop.                                                            *)
(***************************************************************************)
\* The operands of the subtraction swapped.
ElapsedSwapped(t) == start_time_ - t

\* elapsed = now - start_time_, in microseconds.
Elapsed(t) == t - start_time_

\* while (running_) { timestamp = elapsed since start_time_; ...
CapCheck ==
    /\ cap_pc = "check"
    /\ IF running_
       THEN \E t \in ClockReadings :
                /\ now' = t
                /\ timestamp' = Elapsed(t)
                /\ cap_pc' = "acquire"
       ELSE cap_pc' = "done" /\ UNCHANGED <<now, timestamp>>
    /\ UNCHANGED <<annexb, frame_held, crashed>>
    /\ UNCHANGED <<ctlVars, objVars, queueVars, pipeVars, histVars>>
    /\ acquired_after_stop' = IF running_ THEN acquired_after_stop ELSE 0

\* A test that forgets to look whether there is a header.
HeaderDueUnlessSent == ~sent_sequence_header_

\* if (!sent_sequence_header_ && !h264_sequence_header_.empty())
HeaderDue == ~sent_sequence_header_ /\ h264_sequence_header_ # <<>>

\* The model stops the encoder from producing once MaxPushed frames have been
\* pushed (the desktop no longer changes).
RoomToPush == Len(pushed) + (IF HeaderDue THEN 1 ELSE 0) < MaxPushed

\* What CaptureFrame can do when desktop_duplication_ is an object: time out,
\* fail, acquire a frame that does not give its texture, or succeed.
AcquireOutcomes ==
    {"timeout", "error", "no_texture"} \cup (IF RoomToPush THEN {"frame"} ELSE {})

\* CaptureFrame.  With desktop_duplication_ == nullptr the call is undefined:
\* the process dies of the access violation, or the call comes back failed.
CapAcquire ==
    /\ cap_pc = "acquire"
    /\ IF source # "valid"
       THEN \E dies \in BOOLEAN :
                /\ crashed' = dies
                /\ cap_pc' = IF dies THEN cap_pc ELSE "sleep"
                /\ UNCHANGED frame_held
       ELSE \E r \in AcquireOutcomes :
                /\ cap_pc' = CASE r = "frame" -> "encode"
                                [] r = "no_texture" -> "query_failed"
                                [] OTHER -> "sleep"
                /\ frame_held' = IF r \in {"frame", "no_texture"}
                                 THEN frame_held + 1 ELSE frame_held
                /\ UNCHANGED crashed
    /\ UNCHANGED <<timestamp, annexb, now>>
    /\ UNCHANGED <<ctlVars, objVars, queueVars, pipeVars, histVars>>
    /\ acquired_after_stop' =
           IF running_ THEN acquired_after_stop ELSE CountUp(acquired_after_stop)

\* A CaptureFrame that returns false on a failed texture query without
\* releasing the frame.
CapQueryFailedKeepsFrame ==
    /\ cap_pc = "query_failed"
    /\ cap_pc' = "sleep"
    /\ UNCHANGED <<timestamp, annexb, frame_held, now, crashed>>
    /\ UNCHANGED <<ctlVars, objVars, queueVars, pipeVars, histVars>>
    /\ UNCHANGED acquired_after_stop

\* CaptureFrame, lines 619-622: QueryInterface failed; ReleaseFrame, return
\* false.
CapQueryFailed ==
    /\ cap_pc = "query_failed"
    /\ frame_held' = frame_held - 1
    /\ cap_pc' = "sleep"
    /\ UNCHANGED <<timestamp, annexb, now, crashed>>
    /\ UNCHANGED <<ctlVars, objVars, queueVars, pipeVars, histVars>>
    /\ UNCHANGED acquired_after_stop

\* EncodeVideoFrame returns: a step before the output loop failed, or
\* ProcessOutput answered MF_E_TRANSFORM_NEED_MORE_INPUT or failed.
CapEncodeReturn ==
    /\ cap_pc = "encode"
    /\ cap_pc' = "release"
    /\ UNCHANGED <<timestamp, annexb, frame_held, now, crashed>>
    /\ UNCHANGED <<ctlVars, objVars, queueVars, pipeVars, histVars>>
    /\ UNCHANGED acquired_after_stop

\* One turn of the output loop: ProcessOutput hands out a sample of out_len
\* bytes; nothing is enqueued for out_len = 0.
CapEncodeSample(raw) ==
    /\ cap_pc = "encode"
    /\ RoomToPush
    /\ IF Len(raw) > 0
       THEN /\ annexb' = Normalize(raw)
            /\ cap_pc' = IF HeaderDue THEN "header_lock" ELSE "frame_lock"
       ELSE UNCHANGED <<annexb, cap_pc>>
    /\ UNCHANGED <<timestamp, frame_held, now, crashed>>
    /\ UNCHANGED <<ctlVars, objVars, queueVars, pipeVars, histVars>>
    /\ UNCHANGED acquired_after_stop

\* std::lock_guard<std::mutex> lock(queue_mutex_);
CapLock ==
    /\ cap_pc \in {"header_lock", "frame_lock"}
    /\ queue_mutex_ = "free"
    /\ queue_mutex_' = "capture"
    /\ cap_pc' = IF cap_pc = "header_lock" THEN "header_push" ELSE "frame_push"
    /\ UNCHANGED <<frame_queue_, timestamp, annexb, frame_held, now, crashed>>
    /\ UNCHANGED <<ctlVars, objVars, pipeVars, histVars>>
    /\ UNCHANGED acquired_after_stop

\* A queue of capacity one that drops what does not fit.
PushBounded(q, f) == IF Len(q) >= 1 THEN q ELSE Append(q, f)

\* A push at the wrong end.
PushFront(q, f) == <<f>> \o q

\* frame_queue_.push(f), as the queue is after it.
Push(q, f) == Append(q, f)

\* The timestamp given to the frames of this cycle.
FrameTimestamp == timestamp

HeaderFrame ==
    [data |-> h264_sequence_header_, timestamp |-> FrameTimestamp,
     is_keyframe |-> FALSE, is_audio |-> FALSE]

\* EncodedFrame frame of lines 824-828, for the payload data.
FrameOf(data, ts) ==
    [data |-> data, timestamp |-> ts,
     is_keyframe |-> ContainsKeyframe(data), is_audio |-> FALSE]

VideoFrame == FrameOf(annexb, FrameTimestamp)

\* Lines 812-821: push header_frame, leave the lock scope, mark it sent.
CapPushHeader ==
    /\ cap_pc = "header_push"
    /\ frame_queue_' = Push(frame_queue_, HeaderFrame)
    /\ pushed' = Append(pushed, HeaderFrame)
    /\ queue_mutex_' = "free"
    /\ sent_sequence_header_' = TRUE
    /\ cap_pc' = "frame_lock"
    /\ UNCHANGED <<timestamp, annexb, frame_held, now, crashed, sent, pipe_log>>
    /\ UNCHANGED <<running_, start_time_, source, pipe_handle_, h264_sequence_header_>>
    /\ UNCHANGED <<ctlVars, pipeVars>>
    /\ UNCHANGED acquired_after_stop

\* A capture thread that writes the frame to the pipe itself, in one
\* WriteFile call, instead of queueing it.
CapSendFrameDirect ==
    /\ cap_pc = "frame_push"
    /\ pipe_log' = Append(pipe_log,
           [by |-> "capture", unit |-> 0, call |-> "write_data",
            requested |-> Len(annexb), success |-> TRUE, bytes |-> annexb,
            returned |-> "none"])
    /\ queue_mutex_' = "free"
    /\ annexb' = <<>>
    /\ cap_pc' = "encode"
    /\ UNCHANGED <<frame_queue_, timestamp, frame_held, now, crashed, sent, pushed>>
    /\ UNCHANGED <<ctlVars, objVars, pipeVars>>
    /\ UNCHANGED acquired_after_stop

\* Lines 824-832: push frame, leave the lock scope, next turn of the loop.
CapPushFrame ==
    /\ cap_pc = "frame_push"
    /\ frame_queue_' = Push(frame_queue_, VideoFrame)
    /\ pushed' = Append(pushed, VideoFrame)
    /\ queue_mutex_' = "free"
    /\ annexb' = <<>>
    /\ cap_pc' = "encode"
    /\ UNCHANGED <<timestamp, frame_held, now, crashed, sent, pipe_log>>
    /\ UNCHANGED <<ctlVars, objVars, pipeVars>>
    /\ UNCHANGED acquired_after_stop

\* desktop_duplication_->ReleaseFrame();
CapRelease ==
    /\ cap_pc = "release"
    /\ frame_held' = frame_held - 1
    /\ cap_pc' = "sleep"
    /\ UNCHANGED <<timestamp, annexb, now, crashed>>
    /\ UNCHANGED <<ctlVars, objVars, queueVars, pipeVars, histVars>>
    /\ UNCHANGED acquired_after_stop

\* std::this_thread::sleep_for(frame_duration_ms), and the end of the loop
\* body: its locals go out of scope.
CapSleep ==
    /\ cap_pc = "sleep"
    /\ cap_pc' = "check"
    /\ timestamp' = 0
    /\ UNCHANGED <<annexb, frame_held, now, crashed>>
    /\ UNCHANGED <<ctlVars, objVars, queueVars, pipeVars, histVars>>
    /\ UNCHANGED acquired_after_stop

(***************************************************************************)
(* PipeWriteLoop.                                                          *)
(***************************************************************************)
\* while (running_) { EncodedFrame frame; bool has_frame = false; ...
PipeCheck ==
    /\ pipe_pc = "check"
    /\ pipe_pc' = IF running_ THEN "lock" ELSE "done"
    /\ frame' = EncodedFrame
    /\ UNCHANGED <<now, crashed>>
    /\ UNCHANGED <<ctlVars, objVars, queueVars, capVars, histVars>>
    /\ handed_after_stop' = IF running_ THEN handed_after_stop ELSE 0

PipeLock ==
    /\ pipe_pc = "lock"
    /\ queue_mutex_ = "free"
    /\ queue_mutex_' = "pipe"
    /\ pipe_pc' = "pop"
    /\ UNCHANGED <<frame_queue_, frame, now, crashed>>
    /\ UNCHANGED <<ctlVars, objVars, capVars, histVars>>
    /\ UNCHANGED handed_after_stop

\* A pop that empties the queue.
PopAll(q) == <<>>

\* frame_queue_.front() and the queue after frame_queue_.pop().
Front(q) == Head(q)
Pop(q) == Tail(q)

\* A pop that leaves through the empty-queue branch without unlocking.
PipePopKeepsLockOnEmpty ==
    /\ pipe_pc = "pop"
    /\ IF frame_queue_ # <<>>
       THEN /\ frame' = Head(frame_queue_)
            /\ frame_queue_' = Tail(frame_queue_)
            /\ pipe_pc' = "write_size"
            /\ queue_mutex_' = "free"
       ELSE /\ pipe_pc' = "sleep"
            /\ UNCHANGED <<frame, frame_queue_, queue_mutex_>>
    /\ UNCHANGED <<now, crashed>>
    /\ UNCHANGED <<ctlVars, objVars, capVars, histVars>>
    /\ UNCHANGED handed_after_stop

\* Lines 574-579, and the branch on has_frame.
PipePop ==
    /\ pipe_pc = "pop"
    /\ IF frame_queue_ # <<>>
       THEN /\ frame' = Front(frame_queue_)
            /\ frame_queue_' = Pop(frame_queue_)
            /\ pipe_pc' = "write_size"
       ELSE /\ pipe_pc' = "sleep"
            /\ UNCHANGED <<frame, frame_queue_>>
    /\ queue_mutex_' = "free"
    /\ UNCHANGED <<now, crashed>>
    /\ UNCHANGED <<ctlVars, objVars, capVars, histVars>>
    /\ UNCHANGED handed_after_stop

\* std::this_thread::sleep_for(1ms)
PipeSleep ==
    /\ pipe_pc = "sleep"
    /\ pipe_pc' = "check"
    /\ UNCHANGED <<frame, now, crashed>>
    /\ UNCHANGED <<ctlVars, objVars, queueVars, capVars, histVars>>
    /\ UNCHANGED handed_after_stop

(***************************************************************************)
(* SendFrameToPipe.                                                        *)
(***************************************************************************)
\* Flags with the keyframe bit in the place of the audio bit.
FlagsKeyframeAsBit1(f) ==
    (IF f.is_keyframe THEN 2 ELSE 0) + (IF f.is_audio THEN 2 ELSE 0)

\* uint8_t flags
Flags(f) == (IF f.is_keyframe THEN 1 ELSE 0) + (IF f.is_audio THEN 2 ELSE 0)

\* The bytes WriteFile is given for a uint32_t / uint64_t object.
Bytes(n, k) == LittleEndian(n, k)

\* The buffer of each of the four WriteFile calls.
Segment(f, seg) ==
    CASE seg = "write_size"      -> Bytes(Len(f.data), 4)
      [] seg = "write_timestamp" -> Bytes(f.timestamp, 8)
      [] seg = "write_flags"     -> <<Flags(f)>>
      [] seg = "write_data"      -> f.data

\* A SendFrameToPipe that returns after the payload without flushing.
AfterSegmentNoFlush(seg) ==
    CASE seg = "write_size"      -> "write_timestamp"
      [] seg = "write_timestamp" -> "write_flags"
      [] seg = "write_flags"     -> "write_data"
      [] seg = "write_data"      -> "check"

\* What follows a successful write.
AfterSegment(seg) ==
    CASE seg = "write_size"      -> "write_timestamp"
      [] seg = "write_timestamp" -> "write_flags"
      [] seg = "write_flags"     -> "write_data"
      [] seg = "write_data"      -> "flush"

\* What WriteFile can answer to a request of n bytes: all written, or fewer
\* written; a handle that is not open gives failure.
WriteOutcomes(n) ==
    IF pipe_handle_ # "open"
    THEN { [success |-> FALSE, written |-> 0] }
    ELSE { [success |-> TRUE, written |-> n],
           [success |-> TRUE, written |-> n \div 2] }

\* A check that passes a short write.
WriteFailedLax(o, n) == ~o.success

\* if (!success || bytes_written != size)
WriteFailed(o, n) == ~o.success \/ o.written # n

\* What SendFrameToPipe returns once a WriteFile call has answered: false
\* from the failure branch, nothing yet when the call went through.
ReturnedAfterWrite(o, n) == IF WriteFailed(o, n) THEN "false" ELSE "none"

\* Lines 915-917: the answer of FlushFileBuffers is not read, and the function
\* returns true.
ReturnedAfterFlush(ok) == "true"

\* A loop that goes on to the next unit after a failed send without looking
\* at running_.
AfterFailureSkipsTest == "lock"

\* A sender that flushes the pipe after a failed write before it returns.
AfterFailureFlushes == "flush"

\* A loop that gives up after a failed send.
AfterFailureExit == "done"

\* SendFrameToPipe returned false: PipeWriteLoop ignores the result and goes
\* to the next turn of while (running_).
AfterFailure == "check"

\* One WriteFile call and the check after it.  The frame counts as handed to
\* SendFrameToPipe from the first call on.  Each entry of pipe_log records
\* what SendFrameToPipe returned after the call, "none" if it went on.
PipeWrite(o) ==
    /\ pipe_pc \in {"write_size", "write_timestamp", "write_flags", "write_data"}
    /\ LET buf == Segment(frame, pipe_pc)
           k   == IF pipe_pc = "write_size" THEN Len(sent) + 1 ELSE Len(sent)
       IN  /\ o \in WriteOutcomes(Len(buf))
           /\ pipe_log' = Append(pipe_log,
                  [by |-> "pipe", unit |-> k, call |-> pipe_pc, requested |-> Len(buf),
                   success |-> o.success, bytes |-> SubSeq(buf, 1, o.written),
                   returned |-> ReturnedAfterWrite(o, Len(buf))])
           /\ pipe_pc' = IF WriteFailed(o, Len(buf)) THEN AfterFailure
                         ELSE AfterSegment(pipe_pc)
    /\ sent' = IF pipe_pc = "write_size" THEN Append(sent, frame) ELSE sent
    /\ UNCHANGED <<frame, pushed, now, crashed>>
    /\ UNCHANGED <<ctlVars, objVars, queueVars, capVars>>
    /\ handed_after_stop' =
           IF pipe_pc = "write_size" /\ ~running_
           THEN CountUp(handed_after_stop) ELSE handed_after_stop

\* A flush whose failure ends the session.
PipeFlushStopsOnFailure(ok) ==
    /\ pipe_pc = "flush"
    /\ pipe_log' = Append(pipe_log,
           [by |-> "pipe", unit |-> Len(sent), call |-> "flush", requested |-> 0,
            success |-> ok, bytes |-> <<>>, returned |-> ReturnedAfterFlush(ok)])
    /\ pipe_pc' = "check"
    /\ running_' = (running_ /\ ok)
    /\ UNCHANGED <<frame, pushed, sent, now, crashed>>
    /\ UNCHANGED <<start_time_, source, pipe_handle_,
                   h264_sequence_header_, sent_sequence_header_>>
    /\ UNCHANGED <<ctlVars, queueVars, capVars>>
    /\ UNCHANGED handed_after_stop

\* FlushFileBuffers(pipe_handle_); return true;
PipeFlush(ok) ==
    /\ pipe_pc = "flush"
    /\ pipe_log' = Append(pipe_log,
           [by |-> "pipe", unit |-> Len(sent), call |-> "flush", requested |-> 0,
            success |-> ok, bytes |-> <<>>, returned |-> ReturnedAfterFlush(ok)])
    /\ pipe_pc' = "check"
    /\ UNCHANGED <<frame, pushed, sent, now, crashed>>
    /\ UNCHANGED <<ctlVars, objVars, queueVars, capVars>>
    /\ UNCHANGED handed_after_stop

(***************************************************************************)
(* The program.                                                            *)
(***************************************************************************)
AllOutcomes ==
    { [success |-> s, written |-> w] : s \in BOOLEAN, w \in 0..16 }

ControlNext ==
    \/ \E stage \in InitStages, blob \in Blobs : Initialize(stage, blob)
    \/ StartReject
    \/ StartBegin
    \/ StartCaptureThread
    \/ StartPipeThread
    \/ StopNoop
    \/ StopBegin
    \/ StopJoinCapture
    \/ StopJoinPipe
    \/ StopReleaseSource
    \/ StopClosePipe

CaptureNext ==
    \/ CapCheck
    \/ CapAcquire
    \/ CapQueryFailed
    \/ CapEncodeReturn
    \/ \E raw \in Samples : CapEncodeSample(raw)
    \/ CapLock
    \/ CapPushHeader
    \/ CapPushFrame
    \/ CapRelease
    \/ CapSleep

PipeNext ==
    \/ PipeCheck
    \/ PipeLock
    \/ PipePop
    \/ PipeSleep
    \/ \E o \in AllOutcomes : PipeWrite(o)
    \/ \E ok \in BOOLEAN : PipeFlush(ok)

Next ==
    /\ ~crashed
    /\ ControlNext \/ CaptureNext \/ PipeNext
    /\ UNCHANGED callVars

Spec == Init /\ [][Next]_vars

\* The object over its whole life: as above, and the object may be destroyed
\* whenever no call on it is under way.
DestructorNext == Destructor \/ DestroyMembers

LifeNext ==
    \/ Next
    \/ ~crashed /\ DestructorNext /\ UNCHANGED callVars

LifeSpec == Init /\ [][LifeNext]_vars

\* The controlling thread, once inside Stop(), keeps running, and the two
\* std::threads are scheduled by the operating system: none of them is
\* starved for ever.  Calls of Initialize, Start and Stop are the caller's
\* choice and carry no fairness, but a call that is under way goes on.  A
\* process that has died takes no step.
StopSteps ==
    StopJoinCapture \/ StopJoinPipe \/ StopReleaseSource \/ StopClosePipe

\* The steps of a Start() that has passed its test.
StartSteps == StartCaptureThread \/ StartPipeThread

LiveSpec ==
    /\ Spec
    /\ WF_vars(~crashed /\ StartSteps /\ UNCHANGED callVars)
    /\ WF_vars(~crashed /\ StopSteps /\ UNCHANGED callVars)
    /\ WF_vars(~crashed /\ CaptureNext /\ UNCHANGED callVars)
    /\ WF_vars(~crashed /\ PipeNext /\ UNCHANGED callVars)

\* The block of the capture thread under the lock_guard: the push and the
\* unlock at the end of the block.
CaptureUnlocks == CapPushHeader \/ CapPushFrame

\* The same program with less assumed: a Start() under way goes on, the pipe
\* thread is not starved, and the capture thread is not starved while it
\* holds queue_mutex_ (the pipe thread's lock waits for that block to end).
TransmitLiveSpec ==
    /\ Spec
    /\ WF_vars(~crashed /\ StartSteps /\ UNCHANGED callVars)
    /\ WF_vars(~crashed /\ PipeNext /\ UNCHANGED callVars)
    /\ WF_vars(~crashed /\ CaptureUnlocks /\ UNCHANGED callVars)

(***************************************************************************)
(* One session from Initialize to a drained queue.  The encoder delivers   *)
(* the samples of Scenario in this order, one for each turn of the output  *)
(* loop of EncodeVideoFrame; the pipe is connected and takes every write   *)
(* in full.  input holds the samples still to be delivered.                *)
(***************************************************************************)
\* Length-prefixed samples of 10, 0 and 20 bytes.
Sample10 == <<0, 0, 0, 6, 101, 1, 2, 3, 4, 5>>
Sample20 == <<0, 0, 0, 16, 65>> \o [i \in 1..15 |-> i]
Scenario == <<Sample10, <<>>, Sample20>>

ScenarioInit == Constructed /\ input = Scenario /\ result = NoCall

ScenarioControl ==
    \/ \E blob \in Blobs : Initialize("ok", blob)
    \/ init_called /\ StartBegin
    \/ StartCaptureThread
    \/ StartPipeThread

ScenarioCapture ==
    \/ CapCheck
    \/ CapAcquire
    \/ CapQueryFailed
    \/ CapEncodeReturn
    \/ CapLock
    \/ CapPushHeader
    \/ CapPushFrame
    \/ CapRelease
    \/ CapSleep

\* ProcessOutput hands out the next sample.
ScenarioEncode ==
    /\ input # <<>>
    /\ CapEncodeSample(Head(input))
    /\ input' = Tail(input)
    /\ UNCHANGED result

\* WriteFile writes all it was asked to.
FullWrite == [success |-> TRUE, written |-> Len(Segment(frame, pipe_pc))]

ScenarioPipe ==
    \/ PipeCheck
    \/ PipeLock
    \/ PipePop
    \/ PipeSleep
    \/ pipe_pc \in {"write_size", "write_timestamp", "write_flags", "write_data"}
          /\ PipeWrite(FullWrite)
    \/ PipeFlush(TRUE)

ScenarioNext ==
    /\ ~crashed
    /\ \/ (ScenarioControl \/ ScenarioCapture \/ ScenarioPipe) /\ UNCHANGED callVars
       \/ ScenarioEncode

ScenarioSpec == ScenarioInit /\ [][ScenarioNext]_vars

(***************************************************************************)
(* Single calls.  On a freshly constructed object one function is called   *)
(* once, on bytes that a collaborator hands over: an encoder output, an    *)
(* FFmpeg packet or a MF_MT_MPEG_SEQUENCE_HEADER blob.  No thread runs.    *)
(***************************************************************************)
\* Longest byte sequence enumerated in full.
MaxInputLen == 6

\* Packets avcodec_receive_packet hands out for one frame.
MaxPackets == 2

\* 0x65 = 101 is the header of an IDR NAL unit (type 5); 0, 1 and 2 are
\* headers of other types and the bytes start codes and lengths are made of.
InputBytes == {0, 1, 2, 101}

ByteSeqs == UNION { [1..k -> InputBytes] : k \in 0..MaxInputLen }

\* Parameter sets, and lists of at most two of them.
ParameterSets == { <<103>>, <<170, 187, 204, 221>>, <<238, 255>> }

RecordLists == UNION { [1..k -> ParameterSets] : k \in 0..2 }

\* The records of a list, each behind its 2-byte big-endian length.
RECURSIVE Records16(_)
Records16(list) ==
    IF list = <<>> THEN <<>>
    ELSE BigEndian(Len(Head(list)), 2) \o Head(list) \o Records16(Tail(list))

\* An AVCDecoderConfigurationRecord: version, profile, compatibility, level,
\* 0xFC | lengthSizeMinusOne, 0xE0 | number of SPS, the SPS records, number
\* of PPS, the PPS records.
AvccBlob(sps, pps) ==
    <<1, 66, 0, 30, 255, 224 + Len(sps)>> \o Records16(sps)
        \o <<Len(pps)>> \o Records16(pps)

\* The layout with one byte before the first count.
ShortHeaderBlob(a, b) ==
    <<1, Len(a)>> \o Records16(a) \o <<Len(b)>> \o Records16(b)

Prefixes(seq) == { SubSeq(seq, 1, n) : n \in 0..Len(seq) }

BlobInputs ==
    UNION { Prefixes(AvccBlob(a, b)) : a \in RecordLists, b \in RecordLists }
        \cup { ShortHeaderBlob(a, b) : a \in RecordLists, b \in RecordLists }

\* A length-prefixed payload whose first record is 256 bytes long, alone and
\* followed by a second record.
LongRecord == BigEndian(256, 4) \o [i \in 1..256 |-> 2]

LongInputs == { LongRecord, LongRecord \o <<0, 0, 0, 1, 101>> }

Inputs == ByteSeqs \cup BlobInputs \cup LongInputs

CallInit ==
    /\ Constructed
    /\ input \in Inputs
    /\ result = NoCall

\* ContainsKeyframe(input)
CallContainsKeyframe ==
    /\ result = NoCall
    /\ result' = [fn |-> "ContainsKeyframe", out |-> ContainsKeyframe(input)]
    /\ UNCHANGED <<input, ctlVars, objVars, queueVars, capVars, pipeVars,
                   histVars, now, crashed>>

\* Initialize, with input as the blob of the encoder's output type.
CallInitialize(stage) ==
    /\ result = NoCall
    /\ Initialize(stage, input)
    /\ result' = [fn |-> "Initialize", out |-> stage = "ok"]
    /\ UNCHANGED input

\* screen_capture.cpp, EncodeVideoFrame, lines 795-833: one turn of the
\* output loop for an encoder output of the bytes input; no header is cached.
EnqueuedFor(raw, ts) ==
    IF Len(raw) > 0 THEN <<FrameOf(Normalize(raw), ts)>> ELSE <<>>

CallEncodeVideoFrame ==
    /\ result = NoCall
    /\ ~HeaderDue
    /\ frame_queue_' = frame_queue_ \o EnqueuedFor(input, timestamp)
    /\ pushed' = pushed \o EnqueuedFor(input, timestamp)
    /\ result' = [fn |-> "EncodeVideoFrame", out |-> TRUE]
    /\ UNCHANGED <<input, ctlVars, objVars, queue_mutex_, capVars, pipeVars,
                   sent, pipe_log, now, crashed>>

\* The FFmpeg/NVENC build, FfmpegNvencEncoder::EncodeFrame: the EncodedFrame
\* made of one packet (pkt.data, pkt.size, pkt.flags & AV_PKT_FLAG_KEY).
FfmpegPacketFrame(pkt, ts) ==
    [data |-> Normalize(pkt.data), timestamp |-> ts,
     is_keyframe |-> pkt.key, is_audio |-> FALSE]

\* out_frames, for the packets received in one call.
FfmpegEncodeFrame(packets, ts) ==
    [i \in 1..Len(packets) |-> FfmpegPacketFrame(packets[i], ts)]

\* The FFmpeg/NVENC build, EncodeVideoFrame: all of out_frames is pushed
\* under one lock.
CallFfmpegEncodeVideoFrame(n, key) ==
    LET packets    == [i \in 1..n |-> [data |-> input, key |-> key]]
        out_frames == FfmpegEncodeFrame(packets, timestamp)
    IN  /\ result = NoCall
        /\ frame_queue_' = frame_queue_ \o out_frames
        /\ pushed' = pushed \o out_frames
        /\ result' = [fn |-> "FfmpegEncodeVideoFrame", out |-> TRUE]
        /\ UNCHANGED <<input, ctlVars, objVars, queue_mutex_, capVars,
                       pipeVars, sent, pipe_log, now, crashed>>

CallNext ==
    \/ CallContainsKeyframe
    \/ \E stage \in InitStages : CallInitialize(stage)
    \/ CallEncodeVideoFrame
    \/ \E n \in 0..MaxPackets, key \in BOOLEAN : CallFfmpegEncodeVideoFrame(n, key)

CallSpec == CallInit /\ [][CallNext]_vars

(***************************************************************************)
(* The three bitstream routines, each called once on the bytes input, in   *)
(* a build whose size_t has 32 bits (x86) or 64 bits (x64).                *)
(***************************************************************************)
SizeBits == {32, 64}

\* A length field of 0xFFFFFFFC behind offset 0, and one of 0xFFFFFFF7 behind
\* a whole record of one byte.
WrapInputs ==
    { <<255, 255, 255, 252, 1, 2, 3, 4>>,
      <<0, 0, 0, 1, 9, 255, 255, 255, 247>>,
      <<255, 255, 255, 255, 1>> }

BitstreamInit ==
    /\ Constructed
    /\ input \in Inputs \cup WrapInputs
    /\ result = NoCall

\* ConvertLengthPrefixedToAnnexB(input.data(), input.size(), out).  A call
\* that is undefined may end the process or come back.
CallConvertLengthPrefixedToAnnexB(bits) ==
    LET run == LengthPrefixedRun(input, 0, <<>>, bits)
    IN  /\ result = NoCall
        /\ result' = [fn |-> "ConvertLengthPrefixedToAnnexB",
                      out |-> run.defined /\ run.out # <<>>,
                      defined |-> run.defined, bits |-> bits]
        /\ IF run.defined THEN UNCHANGED crashed ELSE crashed' \in BOOLEAN
        /\ UNCHANGED <<input, ctlVars, objVars, queueVars, capVars, pipeVars,
                       histVars, now>>

\* ConvertAvccToAnnexB(input.data(), input.size(), out): no sum in it can
\* wrap (offset and the 16-bit lengths are far below 2^32).
CallConvertAvccToAnnexB ==
    /\ result = NoCall
    /\ result' = [fn |-> "ConvertAvccToAnnexB",
                  out |-> ConvertAvccToAnnexB(input) # <<>>,
                  defined |-> TRUE, bits |-> 0]
    /\ UNCHANGED <<input, ctlVars, objVars, queueVars, capVars, pipeVars,
                   histVars, now, crashed>>

BitstreamNext ==
    \/ \E bits \in SizeBits : CallConvertLengthPrefixedToAnnexB(bits)
    \/ CallConvertAvccToAnnexB
    \/ CallContainsKeyframe

BitstreamSpec == BitstreamInit /\ [][BitstreamNext]_vars

(***************************************************************************)
(* One turn of CaptureLoop on the clock: Initialize was called with the    *)
(* target rate input.fps, and acquisition and encoding of this turn take   *)
(* input.work microseconds.                                                *)
(***************************************************************************)
\* Target rates, and the longest work of one turn in steps of WorkStep.
TargetFps == {15, 24, 25, 30, 50, 60, 90, 120, 144, 240}
MaxWork == 9
WorkStep == 2500

PacingInit ==
    /\ Constructed
    /\ input \in [fps : TargetFps, work : { k * WorkStep : k \in 0..MaxWork }]
    /\ result = NoCall

\* frame_duration_ = 10000000ULL / fps_, in units of 100 ns.
FrameDuration(fps) == 10000000 \div fps

\* frame_duration_ms = frame_duration_ / 10000; sleep_for(milliseconds(..)),
\* in microseconds.
SleepMicros(fps) == (FrameDuration(fps) \div 10000) * 1000

CallCaptureLoopTurn ==
    /\ result = NoCall
    /\ result' = [fn |-> "CaptureLoop", out |-> TRUE,
                  slept |-> SleepMicros(input.fps),
                  turn |-> input.work + SleepMicros(input.fps)]
    /\ UNCHANGED <<input, ctlVars, objVars, queueVars, capVars, pipeVars,
                   histVars, now, crashed>>

PacingSpec == PacingInit /\ [][CallCaptureLoopTurn]_vars

(***************************************************************************)
(* Properties.                                                             *)
(***************************************************************************)
\* What the log of the pipe says, read without the program's own operators.
LogIndex == 1..Len(pipe_log)

IsWrite(e) == e.call # "flush"

Failed(e) == ~e.success \/ Len(e.bytes) # e.requested

RECURSIVE Concat(_)
Concat(ss) == IF ss = <<>> THEN <<>> ELSE Head(ss) \o Concat(Tail(ss))

RECURSIVE ParseLE(_)
ParseLE(bs) == IF bs = <<>> THEN 0 ELSE Head(bs) + 256 * ParseLE(Tail(bs))

\* The WriteFile calls made for the k-th frame given to SendFrameToPipe.
UnitCalls(k) ==
    LET OfUnit(e) == e.unit = k /\ IsWrite(e) IN SelectSeq(pipe_log, OfUnit)

UnitBytes(k) ==
    LET calls == UnitCalls(k)
    IN  Concat([i \in 1..Len(calls) |-> calls[i].bytes])

FullyWritten(k) ==
    /\ Len(UnitCalls(k)) = 4
    /\ \A i \in 1..4 : ~Failed(UnitCalls(k)[i])

ReachedPipe(k) ==
    \E i \in LogIndex : pipe_log[i].unit = k /\ Len(pipe_log[i].bytes) > 0

\* The frame PipeWriteLoop has popped and not yet given to SendFrameToPipe.
InFlight == IF pipe_pc = "write_size" THEN <<frame>> ELSE <<>>

\* C1: the frames given to SendFrameToPipe so far, then the frame popped and
\* not yet given, then the contents of frame_queue_, are together exactly the
\* frames pushed so far, in push order.
QueueIsFifo == sent \o InFlight \o frame_queue_ = pushed

QueueIsFifoWitness ==
    /\ Len(sent) = 1
    /\ InFlight # <<>>
    /\ sent[1] # frame

WireFormat ==
    \A k \in 1..Len(sent) :
        FullyWritten(k) =>
            LET b == UnitBytes(k)
                f == sent[k]
            IN  /\ Len(b) = 13 + Len(f.data)
                /\ \A i \in 1..Len(b) : b[i] \in 0..255
                /\ ParseLE(SubSeq(b, 1, 4)) = Len(f.data)
                /\ ParseLE(SubSeq(b, 5, 12)) = f.timestamp
                /\ (b[13] % 2 = 1) <=> f.is_keyframe
                /\ ((b[13] \div 2) % 2 = 1) <=> f.is_audio
                /\ b[13] \div 4 = 0
                /\ SubSeq(b, 14, Len(b)) = f.data

WireFormatWitness ==
    \E k \in 1..Len(sent) :
        /\ FullyWritten(k)
        /\ sent[k].is_keyframe
        /\ sent[k].timestamp > 255

\* C4: after a WriteFile call of a frame failed or wrote too few bytes, the
\* log holds no further call, write or flush, for that frame; no frame is
\* given a segment twice, and the frame is not put back into frame_queue_.
SendStopsAtFirstFailure ==
    /\ \A i, j \in LogIndex :
           (i < j /\ IsWrite(pipe_log[i]) /\ Failed(pipe_log[i]))
               => pipe_log[j].unit # pipe_log[i].unit
    /\ \A i, j \in LogIndex :
           (i < j /\ pipe_log[i].unit = pipe_log[j].unit)
               => pipe_log[i].call # pipe_log[j].call
    /\ Len(sent) + Len(InFlight) + Len(frame_queue_) = Len(pushed)

SendStopsAtFirstFailureWitness ==
    \E i, j \in LogIndex :
        /\ i < j
        /\ pipe_log[i].call = "write_timestamp"
        /\ pipe_log[i].success
        /\ Len(pipe_log[i].bytes) # pipe_log[i].requested
        /\ pipe_log[j].call = "write_size"

\* C5: every call on the pipe is made by the pipe thread, the calls of one
\* frame are next to each other in the log, in the order size, timestamp,
\* flags, payload, flush, and a frame whose write failed is followed by the
\* next frame's first segment.
CallOrder ==
    <<"write_size", "write_timestamp", "write_flags", "write_data", "flush">>

Position(call) == CHOOSE n \in 1..5 : CallOrder[n] = call

UnitsNotInterleaved ==
    /\ \A i \in LogIndex : pipe_log[i].by = "pipe" /\ pipe_log[i].unit >= 1
    /\ \A i \in LogIndex :
           i > 1 =>
               LET a == pipe_log[i - 1]
                   b == pipe_log[i]
               IN  \/ /\ b.unit = a.unit
                      /\ ~Failed(a)
                      /\ Position(b.call) = Position(a.call) + 1
                   \/ /\ b.unit = a.unit + 1
                      /\ b.call = "write_size"
                      /\ Failed(a) \/ a.call = "flush"
    /\ Len(pipe_log) > 0 =>
           pipe_log[1].unit = 1 /\ pipe_log[1].call = "write_size"

UnitsNotInterleavedWitness ==
    \E i \in LogIndex :
        /\ i > 1
        /\ pipe_log[i].unit = 2
        /\ Len(pipe_log[i].bytes) > 0
        /\ Failed(pipe_log[i - 1])
        /\ Len(pipe_log[i - 1].bytes) > 0

\* Everything of the state but the record of the last return value.
stateVars ==
    <<ctl_pc, init_called, destructing, objVars, queueVars, capVars, pipeVars,
      histVars, now, crashed>>

\* C6: a Start() made while running_ is set returns false and changes
\* nothing: running_, start_time_, both loops and all the rest of the state
\* are as before; and Start() never launches a loop on a std::thread that
\* still holds one.
StartWhileRunningRejected ==
    /\ [][ ( /\ running_
             /\ ctl_pc = "idle"
             /\ \/ ctl_pc' = "start_capture_thread"
                \/ last_ret' # last_ret /\ last_ret' \in {"Start:true", "Start:false"} )
           => (last_ret' = "Start:false" /\ UNCHANGED stateVars) ]_vars
    /\ [](ctl_pc = "start_capture_thread" => ~Joinable(cap_pc))
    /\ [](ctl_pc = "start_pipe_thread" => ~Joinable(pipe_pc))

StartWhileRunningRejectedWitness ==
    /\ last_ret = "Start:false"
    /\ running_
    /\ Alive(cap_pc)
    /\ Alive(pipe_pc)
    /\ Len(pushed) > 0

\* C7: a Stop() made while running_ is clear returns without changing
\* anything, and when a Stop() has returned running_ is clear, so that a
\* second Stop() right after it is such a call.
StopWhenIdleDoesNothing ==
    /\ [][ ( /\ ~running_
             /\ ctl_pc = "idle"
             /\ \/ ctl_pc' = "join_capture"
                \/ last_ret' # last_ret /\ last_ret' \in {"Stop:done", "Stop:noop"} )
           => (last_ret' = "Stop:noop" /\ UNCHANGED stateVars) ]_vars
    /\ []((ctl_pc = "idle" /\ last_ret \in {"Stop:done", "Stop:noop"}) => ~running_)

StopWhenIdleDoesNothingWitness ==
    /\ last_ret = "Stop:noop"
    /\ source = "released"
    /\ pipe_handle_ = "closed"

\* C8: in no state is the frame source released or the pipe closed while a
\* loop is alive.
NoTeardownUnderLiveLoop ==
    (source = "released" \/ pipe_handle_ = "closed")
        => (~Alive(cap_pc) /\ ~Alive(pipe_pc))

\* C9: once Stop() has cleared running_, it returns, with both loops gone and
\* the session idle.
StopReturned ==
    /\ ctl_pc = "idle"
    /\ ~running_
    /\ cap_pc = "off"
    /\ pipe_pc = "off"

StopEventuallyReturns == (ctl_pc = "join_capture") ~> StopReturned

\* The same, for the runs in which the capture thread survives its calls on
\* the frame source.
StopReturnsUnlessCrashed == (ctl_pc = "join_capture") ~> (StopReturned \/ crashed)

\* C10: a loop leaves while (running_) only when running_ is clear; a failed
\* WriteFile sends the pipe thread to the next turn of its loop with the
\* queue as it was; a frame acquisition that yields no frame sends the
\* capture thread through its sleep to the next turn with nothing pushed.
LastCall == pipe_log[Len(pipe_log)]

LoopsSurviveFaults ==
    [][ /\ (cap_pc' = "done" /\ cap_pc # "done") => (~running_ /\ cap_pc = "check")
        /\ (pipe_pc' = "done" /\ pipe_pc # "done") => (~running_ /\ pipe_pc = "check")
        /\ (cap_pc = "check" /\ cap_pc' # "check" /\ running_) => cap_pc' = "acquire"
        /\ (pipe_pc = "check" /\ pipe_pc' # "check" /\ running_) => pipe_pc' = "lock"
        /\ (pipe_log' # pipe_log /\ IsWrite(LastCall') /\ Failed(LastCall'))
              => (pipe_pc' = "check" /\ UNCHANGED <<frame_queue_, running_>>)
        /\ (cap_pc = "acquire" /\ cap_pc' \notin {"acquire", "encode"})
              => /\ cap_pc' \in {"sleep", "query_failed"}
                 /\ UNCHANGED <<frame_queue_, pushed, running_>>
        /\ (cap_pc = "query_failed" /\ cap_pc' # cap_pc)
              => (cap_pc' = "sleep" /\ UNCHANGED <<frame_queue_, pushed, running_>>)
        /\ (cap_pc = "sleep" /\ cap_pc' # "sleep") => cap_pc' = "check"
      ]_vars

LoopsSurviveFaultsWitness ==
    /\ running_
    /\ \E i, j \in LogIndex :
           /\ i < j
           /\ Failed(pipe_log[i])
           /\ pipe_log[j].call = "flush"
    /\ cap_pc = "acquire"
    /\ Len(pushed) = MaxPushed

\* C11: the header frame is pushed only when h264_sequence_header_ is not
\* empty and has not been pushed before, as the very first push, with the
\* header bytes as its data and is_keyframe = is_audio = false; every other
\* push, when there is a header, comes after it; and so the header is pushed
\* at most once and is the first frame given to SendFrameToPipe.
LastPushed == pushed[Len(pushed)]

RECURSIVE ParseBE(_)
ParseBE(bs) ==
    IF bs = <<>> THEN 0
    ELSE 256 * ParseBE(SubSeq(bs, 1, Len(bs) - 1)) + bs[Len(bs)]

StartsWithStartCode(p) ==
    \/ Len(p) >= 3 /\ SubSeq(p, 1, 3) = <<0, 0, 1>>
    \/ Len(p) >= 4 /\ SubSeq(p, 1, 4) = <<0, 0, 0, 1>>

\* The records (4-byte big-endian length, bytes) wholly contained in p.
RECURSIVE WholeRecords(_)
WholeRecords(p) ==
    IF Len(p) < 4 THEN <<>>
    ELSE LET n == ParseBE(SubSeq(p, 1, 4))
         IN  IF 4 + n > Len(p) THEN <<>>
             ELSE <<SubSeq(p, 5, 4 + n)>> \o WholeRecords(SubSeq(p, 5 + n, Len(p)))

\* Every record of a list behind 00 00 00 01.
Delimited(list) == Concat([i \in 1..Len(list) |-> <<0, 0, 0, 1>> \o list[i]])

\* A 3- or 4-byte start code with a byte of NAL type 5 right after it.
HasIdrAfterStartCode(p) ==
    \E i \in 1..Len(p) :
        \/ /\ i + 3 <= Len(p)
           /\ SubSeq(p, i, i + 2) = <<0, 0, 1>>
           /\ p[i + 3] % 32 = 5
        \/ /\ i + 4 <= Len(p)
           /\ SubSeq(p, i, i + 3) = <<0, 0, 0, 1>>
           /\ p[i + 4] % 32 = 5

Encoded == result.fn \in {"EncodeVideoFrame", "FfmpegEncodeVideoFrame"}

Queued == { frame_queue_[i] : i \in 1..Len(frame_queue_) }

\* C12: every EncodedFrame in frame_queue_ has a payload of at least one byte.
QueuedPayloadsNonEmpty == \A f \in Queued : f.data # <<>>

\* C13: for encoder bytes, at least one, that do not begin with a start code
\* and hold no whole length-prefixed record, nothing is pushed to
\* frame_queue_.
MalformedPayloadNotQueued ==
    (/\ Encoded
     /\ Len(input) > 0
     /\ ~StartsWithStartCode(input)
     /\ WholeRecords(input) = <<>>)
        => frame_queue_ = <<>>

\* C14: for encoder bytes that hold at least one whole length-prefixed
\* record, whatever the length of the first, the payload pushed is the whole
\* records in order, each behind 00 00 00 01, without the truncated tail.
LengthPrefixedPayloadConverted ==
    (Encoded /\ WholeRecords(input) # <<>>)
        => /\ \A f \in Queued : f.data = Delimited(WholeRecords(input))
           /\ result.fn = "EncodeVideoFrame" => Len(frame_queue_) = 1

\* C15: for encoder bytes that begin with 00 00 01 or 00 00 00 01, the
\* payload pushed is those bytes, unchanged.
StartCodePayloadUnchanged ==
    (Encoded /\ StartsWithStartCode(input))
        => /\ \A f \in Queued : f.data = input
           /\ result.fn = "EncodeVideoFrame" => Len(frame_queue_) = 1

StartCodePayloadUnchangedWitness ==
    /\ result.fn = "EncodeVideoFrame"
    /\ Len(input) = MaxInputLen
    /\ SubSeq(input, 1, 4) = <<0, 0, 0, 1>>
    /\ Len(frame_queue_) = 1
    /\ frame_queue_[1].data = input

\* C16: ContainsKeyframe(p) is true exactly when p holds a 3- or 4-byte
\* start code with a byte of NAL type 5 right after it.
KeyframeScanExact ==
    result.fn = "ContainsKeyframe"
        => (result.out <=> HasIdrAfterStartCode(input))

\* C17: every frame pushed for encoder bytes has is_keyframe set exactly
\* when its payload holds a NAL unit of type 5 after a start code.
KeyframeFlagExact ==
    Encoded => \A f \in Queued : f.is_keyframe <=> HasIdrAfterStartCode(f.data)

\* C18: Initialize on a blob of 5 bytes, a byte whose low 5 bits count the
\* SPS records, the SPS records (2-byte big-endian length, bytes), a byte
\* that counts the PPS records, the PPS records, caches every record in
\* order, each behind 00 00 00 01.
SequenceHeaderParsed ==
    (result.fn = "Initialize" /\ result.out)
        => \A a, b \in RecordLists :
               input = AvccBlob(a, b) => h264_sequence_header_ = Delimited(a \o b)

SequenceHeaderParsedWitness ==
    /\ result.fn = "Initialize"
    /\ result.out
    /\ input = AvccBlob(<< <<170, 187, 204, 221>> >>, << <<238, 255>> >>)
    /\ h264_sequence_header_ =
           <<0, 0, 0, 1, 170, 187, 204, 221, 0, 0, 0, 1, 238, 255>>

\* C18 as stated: the same for a blob of 1 byte, a byte that counts the
\* set-A records, the records, a byte that counts the set-B records, the
\* records.
ShortHeaderBlobParsed ==
    (result.fn = "Initialize" /\ result.out)
        => \A a, b \in RecordLists :
               input = ShortHeaderBlob(a, b)
                   => h264_sequence_header_ = Delimited(a \o b)

\* C19: after Initialize on a blob that is cut short, h264_sequence_header_
\* is empty.
CutShort(blob) ==
    /\ \E a, b \in RecordLists :
           blob \in Prefixes(AvccBlob(a, b)) /\ blob # AvccBlob(a, b)
    /\ \A a, b \in RecordLists : blob # AvccBlob(a, b)

TruncatedBlobCachesNothing ==
    (result.fn = "Initialize" /\ result.out /\ CutShort(input))
        => h264_sequence_header_ = <<>>

CaptureHoldsMutex == cap_pc \in {"header_push", "frame_push"}
PipeHoldsMutex == pipe_pc = "pop"
MutexHeldOnlyAroundQueue ==
    /\ queue_mutex_ \in {"free", "capture", "pipe"}
    /\ (queue_mutex_ = "capture") <=> CaptureHoldsMutex
    /\ (queue_mutex_ = "pipe") <=> PipeHoldsMutex
    /\ ~(CaptureHoldsMutex /\ PipeHoldsMutex)
QueueTouchedUnderMutex ==
    /\ frame_queue_' # frame_queue_ =>
           /\ \/ queue_mutex_ = "capture" /\ CaptureHoldsMutex /\ pipe_pc' = pipe_pc
              \/ queue_mutex_ = "pipe" /\ PipeHoldsMutex /\ cap_pc' = cap_pc
           /\ queue_mutex_' = "free"
    /\ (PipeHoldsMutex /\ pipe_pc' = "sleep") =>
           queue_mutex_' = "free" /\ frame_queue_' = frame_queue_
QueueGuardedByMutex ==
    [](MutexHeldOnlyAroundQueue) /\ [][QueueTouchedUnderMutex]_vars
QueueGuardedByMutexWitness ==
    /\ queue_mutex_ = "pipe"
    /\ cap_pc = "frame_lock"
    /\ frame_queue_ = <<>>

\* C24: a push is never refused and never waits for room: whatever the length
\* of the queue, the thread that holds the mutex at a push can take the step,
\* and the step appends exactly the unit it pushes, so all MaxPushed units the
\* encoder produces can be queued at once.  A pop is never refused either: on
\* an empty queue it takes the has_frame = false branch to the sleep and the
\* queue stays empty.
PushAppends ==
    (CaptureHoldsMutex /\ cap_pc' # cap_pc) =>
        /\ Len(pushed') = Len(pushed) + 1
        /\ frame_queue_' = Append(frame_queue_, pushed'[Len(pushed')])
PopOnEmptyReportsEmpty ==
    (PipeHoldsMutex /\ frame_queue_ = <<>> /\ pipe_pc' # pipe_pc) =>
        /\ pipe_pc' = "sleep"
        /\ frame_queue_' = <<>>
        /\ UNCHANGED <<frame, sent, pipe_log>>
QueueOpsEnabled ==
    ~crashed =>
        /\ cap_pc = "header_push" => ENABLED CapPushHeader
        /\ cap_pc = "frame_push" => ENABLED CapPushFrame
        /\ PipeHoldsMutex => ENABLED PipePop
PushAndPopNeverBlock ==
    /\ [](QueueOpsEnabled)
    /\ [][PushAppends /\ PopOnEmptyReportsEmpty]_vars
PushAndPopNeverBlockWitness ==
    /\ Len(frame_queue_) = MaxPushed
    /\ frame_queue_ = pushed
    /\ sent = <<>>
    /\ pipe_pc = "sleep"

\* C25: a call of Initialize that returns false, at whichever step it failed,
\* returns with running_ clear and with neither CaptureLoop nor PipeWriteLoop
\* started: the call starts no thread and leaves the flag alone.
InitializeFails == ~init_called /\ init_called' /\ last_ret' = "Initialize:false"
FlagSetByStart ==
    ctl_pc = "idle" /\ ~running_ /\ running_' /\ ctl_pc' = "start_capture_thread"
FlagClearedByStop ==
    ctl_pc = "idle" /\ running_ /\ ~running_' /\ ctl_pc' = "join_capture"
WorkerStep == cap_pc' # cap_pc \/ pipe_pc' # pipe_pc \/ pipe_log' # pipe_log
RunningWrittenOnlyByStartAndStop ==
    [][/\ running_' # running_ =>
             /\ FlagSetByStart \/ FlagClearedByStop
             /\ UNCHANGED <<queueVars, capVars, pipeVars, histVars>>
       /\ (WorkerStep /\ ctl_pc' = ctl_pc) => running_' = running_]_vars
RunningWrittenOnlyByStartAndStopWitness ==
    /\ running_
    /\ pipe_pc = "check"
    /\ frame_queue_ = <<>>
    /\ pipe_log # <<>>
    /\ ~pipe_log[Len(pipe_log)].success

\* C27: when FlushFileBuffers fails after the payload of a unit was written,
\* SendFrameToPipe returns false for that unit.
IsFailedFlush(e) == e.call = "flush" /\ ~e.success
FlushFailureReported ==
    \A i \in LogIndex : IsFailedFlush(pipe_log[i]) => pipe_log[i].returned = "false"

\* C28: a payload WriteFile that succeeds in full is followed at once by the
\* flush of the same unit, inside the same SendFrameToPipe and so before any
\* byte of the next unit; every flush follows such a write; hence one flush
\* for each unit whose payload was written and none for a unit with a failed
\* write.
PayloadWrittenAt(i) == pipe_log[i].call = "write_data" /\ ~Failed(pipe_log[i])
FlushesOf(k) ==
    Cardinality({ i \in LogIndex : pipe_log[i].call = "flush" /\ pipe_log[i].unit = k })
PayloadWritten(k) ==
    \E i \in LogIndex : pipe_log[i].unit = k /\ PayloadWrittenAt(i)
FlushAfterEachPayload ==
    /\ \A i \in LogIndex :
          /\ PayloadWrittenAt(i) =>
                IF i = Len(pipe_log)
                THEN pipe_pc = "flush"
                ELSE /\ pipe_log[i + 1].call = "flush"
                     /\ pipe_log[i + 1].unit = pipe_log[i].unit
          /\ pipe_log[i].call = "flush" =>
                /\ i > 1
                /\ PayloadWrittenAt(i - 1)
                /\ pipe_log[i - 1].unit = pipe_log[i].unit
    /\ pipe_pc = "flush" => pipe_log # <<>> /\ PayloadWrittenAt(Len(pipe_log))
    /\ \A k \in 1..Len(sent) :
          FlushesOf(k) = IF PayloadWritten(k) /\ ~(k = Len(sent) /\ pipe_pc = "flush")
                         THEN 1 ELSE 0
FlushAfterEachPayloadWitness ==
    /\ Len(sent) = 2
    /\ ~PayloadWritten(1) /\ FlushesOf(1) = 0
    /\ PayloadWritten(2) /\ FlushesOf(2) = 1
    /\ pipe_pc = "check"

\* C29: once Stop() has cleared running_, PipeWriteLoop begins at most one
\* more SendFrameToPipe and CaptureLoop begins at most one more CaptureFrame
\* before the loop ends.  What is in flight is finished: a loop ends only from
\* its while test, with no frame held and no encoder output pending; a
\* SendFrameToPipe under way is left only through a WriteFile or flush call;
\* and a step of the controller moves neither thread.
InSendFrameToPipe ==
    pipe_pc \in {"write_size", "write_timestamp", "write_flags", "write_data", "flush"}
InFlightFinished ==
    /\ (cap_pc # "done" /\ cap_pc' = "done") =>
           cap_pc = "check" /\ frame_held = 0 /\ annexb = <<>>
    /\ (pipe_pc # "done" /\ pipe_pc' = "done") => pipe_pc = "check"
    /\ (InSendFrameToPipe /\ pipe_pc' # pipe_pc) =>
           /\ Len(pipe_log') = Len(pipe_log) + 1
           /\ pipe_log'[Len(pipe_log')].call = pipe_pc
           /\ ~Failed(pipe_log'[Len(pipe_log')]) /\ pipe_pc # "flush" =>
                  pipe_pc' = AfterSegment(pipe_pc)
    /\ (running_ /\ ~running_') => UNCHANGED <<capVars, pipeVars, queueVars>>
StopBoundedByOneCycle ==
    /\ [](acquired_after_stop <= 1 /\ handed_after_stop <= 1)
    /\ [][InFlightFinished]_vars
StopBoundedByOneCycleWitness ==
    /\ ~running_
    /\ acquired_after_stop = 1
    /\ handed_after_stop = 1
    /\ cap_pc = "check"
    /\ pipe_pc = "write_data"

\* C30: in a session that pushes units (running_ set, frame source valid) the
\* k-th unit pushed is eventually handed to SendFrameToPipe unless the session
\* is stopped first, given that the pipe thread is not starved and WriteFile
\* returns.  Each turn of PipeWriteLoop either pops the head of the queue and
\* hands exactly that unit to SendFrameToPipe, or finds the queue empty,
\* sleeps and goes back to the while test with the queue untouched.
PushingSession == running_ /\ source = "valid"
TransmitIteration ==
    /\ (PipeHoldsMutex /\ pipe_pc' # pipe_pc) =>
           IF frame_queue_ # <<>>
           THEN /\ frame' = Head(frame_queue_)
                /\ frame_queue_' = Tail(frame_queue_)
                /\ pipe_pc' = "write_size"
           ELSE /\ pipe_pc' = "sleep"
                /\ UNCHANGED <<frame_queue_, sent>>
    /\ (pipe_pc = "write_size" /\ pipe_pc' # pipe_pc) =>
           sent' = Append(sent, frame) /\ UNCHANGED frame_queue_
    /\ (pipe_pc = "sleep" /\ pipe_pc' # pipe_pc) =>
           pipe_pc' = "check" /\ UNCHANGED <<frame_queue_, sent>>
EveryPushedUnitHanded ==
    /\ \A k \in 1..MaxPushed :
          (PushingSession /\ Len(pushed) >= k) ~> (Len(sent) >= k \/ ~running_)
    /\ [][TransmitIteration]_vars
EveryPushedUnitHandedWitness ==
    /\ PushingSession
    /\ Len(pushed) = MaxPushed
    /\ sent = pushed
    /\ frame_queue_ = <<>>

\* C21: the destructor calls Stop(); when its body has returned and the
\* members are destroyed, running_ is clear and both loops have ended and
\* been joined, also when the object was destroyed in a running session; the
\* destruction of the two thread members never finds a thread joinable.
DestructorBodyDone == ctl_pc \in {"destroy_members", "destroyed"}
NoLoopSurvivesDestructor ==
    /\ DestructorBodyDone =>
           /\ destructing
           /\ ~running_
           /\ ~Joinable(cap_pc) /\ ~Joinable(pipe_pc)
    /\ destructing => ctl_pc # "idle"
    /\ (destructing /\ ctl_pc \in {"release_source", "close_pipe"}) =>
           ~Alive(cap_pc) /\ ~Alive(pipe_pc)
NoLoopSurvivesDestructorWitness ==
    /\ ctl_pc = "destroyed"
    /\ last_ret = "Start:true"
    /\ sent # <<>>
    /\ ~crashed

\* C22: in a session fed the samples of 10, 0 and 20 bytes, the bytes written
\* to the pipe are at every moment a sequence of whole units (13-byte header,
\* then as many payload bytes as the header says) followed by the written
\* part of the unit under way; the units after the sequence header, if one
\* was queued, carry the 10-byte and the 20-byte sample in Annex-B form, in
\* this order, with the timestamps they were pushed with; once all samples
\* are delivered and the queue is drained there are exactly these two, and
\* nothing else was written.  The 0-byte sample gives no unit.
SinkStream ==
    Concat([i \in LogIndex |-> IF IsWrite(pipe_log[i]) THEN pipe_log[i].bytes ELSE <<>>])
RECURSIVE ParseUnits(_)
ParseUnits(bs) ==
    IF Len(bs) < 13 THEN <<>>
    ELSE LET n == ParseLE(SubSeq(bs, 1, 4))
         IN  IF Len(bs) < 13 + n THEN <<>>
             ELSE <<[timestamp |-> ParseLE(SubSeq(bs, 5, 12)),
                     flags |-> bs[13],
                     data |-> SubSeq(bs, 14, 13 + n)]>>
                  \o ParseUnits(SubSeq(bs, 14 + n, Len(bs)))
RECURSIVE WireLength(_)
WireLength(us) ==
    IF us = <<>> THEN 0 ELSE 13 + Len(Head(us).data) + WireLength(Tail(us))
ExpectedPayloads ==
    << <<0, 0, 0, 1, 101, 1, 2, 3, 4, 5>>,
       <<0, 0, 0, 1, 65>> \o [i \in 1..15 |-> i] >>
WithoutPreamble(us) ==
    IF sent_sequence_header_ /\ us # <<>> THEN Tail(us) ELSE us
ScenarioDrained ==
    /\ input = <<>>
    /\ cap_pc \notin {"header_lock", "header_push", "frame_lock", "frame_push"}
    /\ frame_queue_ = <<>>
    /\ ~InSendFrameToPipe
CaptureThreadStep == cap_pc' # cap_pc /\ Alive(cap_pc) /\ ctl_pc' = ctl_pc /\ pipe_pc' = pipe_pc
PipeThreadStep == pipe_pc' # pipe_pc /\ Alive(pipe_pc) /\ ctl_pc' = ctl_pc /\ cap_pc' = cap_pc
NoLoopAlive == ~Alive(cap_pc) /\ ~Alive(pipe_pc)
ControllerStepAlone == NoLoopAlive /\ cap_pc' = cap_pc /\ pipe_pc' = pipe_pc
OwnedByOneThread ==
    /\ pipe_log' # pipe_log =>
           /\ PipeThreadStep /\ InSendFrameToPipe
           /\ pipe_log'[Len(pipe_log')].by = "pipe"
    /\ \A i \in LogIndex : pipe_log[i].by = "pipe"
    /\ Len(frame_queue_') > Len(frame_queue_) => CaptureThreadStep
    /\ Len(frame_queue_') < Len(frame_queue_) => PipeThreadStep
    /\ frame' # frame => PipeThreadStep
    /\ (annexb' # annexb \/ timestamp' # timestamp) => CaptureThreadStep
    /\ frame_held' # frame_held =>
           \/ CaptureThreadStep
           \/ ctl_pc = "release_source" /\ ControllerStepAlone
    /\ sent_sequence_header_' # sent_sequence_header_ =>
           \/ CaptureThreadStep /\ cap_pc = "header_push"
           \/ ctl_pc = "idle" /\ ControllerStepAlone
    /\ source' # source =>
           /\ ctl_pc \in {"idle", "release_source"}
           /\ ControllerStepAlone
    /\ pipe_handle_' # pipe_handle_ =>
           /\ ctl_pc \in {"idle", "close_pipe"}
           /\ ControllerStepAlone
    /\ (h264_sequence_header_' # h264_sequence_header_ \/ start_time_' # start_time_) =>
           ctl_pc = "idle" /\ ControllerStepAlone
RoutineCalled ==
    result.fn \in {"ConvertLengthPrefixedToAnnexB", "ConvertAvccToAnnexB"}
BitstreamRoutinesTotal ==
    /\ ~crashed
    /\ RoutineCalled => result.defined /\ result.out \in BOOLEAN
    /\ result.fn = "ContainsKeyframe" => result.out \in BOOLEAN

\* The same where size_t has 64 bits.
BitstreamRoutinesTotalOn64 ==
    (RoutineCalled /\ result.bits # 32) => (~crashed /\ result.defined)

\* C33: a turn of CaptureLoop whose work is shorter than the frame interval
\* of 1000000 / fps microseconds sleeps for the interval less the work, and
\* so lasts one interval.
FrameInterval(fps) == 1000000 \div fps
SleepIsRemainderOfInterval ==
    (result.fn = "CaptureLoop" /\ input.work < FrameInterval(input.fps)) =>
        /\ result.slept = FrameInterval(input.fps) - input.work
        /\ result.turn = FrameInterval(input.fps)

\* C34: when a WriteFile call of a frame fails after an earlier call of the
\* same frame went through, the bytes the pipe took stay in the stream where
\* they are, the next call on the pipe is the 4-byte size write of the next
\* frame, and the stream is no concatenation of whole wire frames of frames
\* given to SendFrameToPipe.
PartialUnit(k) ==
    \E i, j \in LogIndex :
        /\ i < j
        /\ pipe_log[i].unit = k /\ IsWrite(pipe_log[i]) /\ ~Failed(pipe_log[i])
        /\ pipe_log[j].unit = k /\ IsWrite(pipe_log[j]) /\ Failed(pipe_log[j])
WireOf(f) ==
    LittleEndian(Len(f.data), 4) \o LittleEndian(f.timestamp, 8)
        \o <<(IF f.is_keyframe THEN 1 ELSE 0) + (IF f.is_audio THEN 2 ELSE 0)>>
        \o f.data
WireOfUnits(S) ==
    Concat([k \in 1..Len(sent) |-> IF k \in S THEN WireOf(sent[k]) ELSE <<>>])
PartialUnitStaysInStream ==
    \A k \in 1..Len(sent) :
        PartialUnit(k) =>
            /\ SinkStream = Concat([u \in 1..Len(sent) |-> UnitBytes(u)])
            /\ Len(UnitBytes(k)) >= 4
            /\ Len(UnitBytes(k)) < Len(WireOf(sent[k]))
            /\ UnitBytes(k) = SubSeq(WireOf(sent[k]), 1, Len(UnitBytes(k)))
            /\ \A j \in LogIndex :
                   (j > 1 /\ pipe_log[j - 1].unit = k /\ Failed(pipe_log[j - 1]))
                       => /\ pipe_log[j].unit = k + 1
                          /\ pipe_log[j].call = "write_size"
                          /\ pipe_log[j].requested = 4
            /\ \A S \in SUBSET (1..Len(sent)) : SinkStream # WireOfUnits(S)
PartialUnitStaysInStreamWitness ==
    \E k \in 1..Len(sent) :
        /\ PartialUnit(k)
        /\ Len(UnitBytes(k)) > 12
        /\ k + 1 <= Len(sent)
        /\ FullyWritten(k + 1)

\* C35: when the pipe thread reads running_ clear it ends without touching
\* frame_queue_; while no pipe thread runs nothing is popped and nothing is
\* handed to SendFrameToPipe; no step of Stop() changes frame_queue_; and
\* once the pipe is closed no byte is added to the stream.  So the frames in
\* the queue at that read are in it when Stop() returns, unwritten.
InStop == ctl_pc \in {"join_capture", "join_pipe", "release_source", "close_pipe"}
IsPrefixOf(a, b) == Len(a) <= Len(b) /\ a = SubSeq(b, 1, Len(a))
InStart == ctl_pc \in {"start_capture_thread", "start_pipe_thread"}
StartStep == (ctl_pc = "idle" /\ ctl_pc' = "start_capture_thread") \/ (InStart /\ ctl_pc' # ctl_pc)
StartOnlyTestsRunning ==
    /\ []((ctl_pc = "idle" /\ ~running_) => ENABLED StartBegin)
    /\ []((InStart /\ ~crashed) => ENABLED (StartSteps /\ ~crashed'))
    /\ [][ /\ StartStep =>
                  /\ running_'
                  /\ UNCHANGED <<source, pipe_handle_, h264_sequence_header_,
                                 sent_sequence_header_, frame_queue_, init_called>>
           /\ (ctl_pc = "start_capture_thread" /\ ctl_pc' # ctl_pc)
                  => (cap_pc' = "check" /\ ctl_pc' = "start_pipe_thread")
           /\ (ctl_pc = "start_pipe_thread" /\ ctl_pc' # ctl_pc)
                  => (pipe_pc' = "check" /\ ctl_pc' = "idle" /\ last_ret' = "Start:true")
           /\ (InStart /\ ctl_pc' # ctl_pc) => ~crashed'
         ]_vars
StartOnlyTestsRunningWitness ==
    /\ last_ret = "Start:true"
    /\ running_
    /\ cap_pc = "check" /\ pipe_pc = "check"
    /\ source = "released"
    /\ pipe_handle_ = "closed"
    /\ sent_sequence_header_
    /\ frame_queue_ # <<>>

Acquires == frame_held' = frame_held + 1
Releases == frame_held' = frame_held - 1
WorkingOnFrame ==
    cap_pc \in {"query_failed", "encode", "header_lock", "header_push",
                "frame_lock", "frame_push", "release"}
OneReleasePerAcquiredFrame ==
    /\ [](Alive(cap_pc) => (frame_held = IF WorkingOnFrame THEN 1 ELSE 0))
    /\ [][ /\ Acquires => (cap_pc = "acquire" /\ frame_held = 0 /\ WorkingOnFrame')
           /\ (Releases /\ Alive(cap_pc))
                 => (cap_pc \in {"query_failed", "release"} /\ cap_pc' = "sleep")
           /\ (cap_pc \in {"query_failed", "release"} /\ cap_pc' # cap_pc)
                 => (Releases /\ frame_held = 1 /\ cap_pc' = "sleep")
           /\ (WorkingOnFrame /\ ~WorkingOnFrame') => cap_pc' = "sleep"
           /\ (cap_pc = "acquire" /\ cap_pc' = "sleep") => UNCHANGED frame_held
           /\ (cap_pc = "encode" /\ cap_pc' # cap_pc)
                 => cap_pc' \in {"release", "header_lock", "frame_lock"}
         ]_vars
OneReleasePerAcquiredFrameWitness ==
    /\ cap_pc = "query_failed"
    /\ frame_held = 1
    /\ Len(pushed) = MaxPushed
    /\ running_

====
